---- MODULE Spec2Model ----
(***************************************************************************)
(* Voice Transcriber (src/main.py): the recorder, the window's recording   *)
(* and cleanup handlers, the worker threads they start, the global hotkey  *)
(* listener and the queued signal delivery between threads.                *)
(*                                                                         *)
(* Threads: the Qt event-loop thread (one handler at a time), one worker   *)
(* thread per stop_recording(), one per cleanup_text(), and the pynput     *)
(* listener thread.  A signal emitted on the event-loop thread runs its    *)
(* slot at once; a signal emitted on any other thread is queued on the     *)
(* event loop and its slot runs when the loop dispatches it.               *)
(***************************************************************************)
EXTENDS Integers, Sequences, FiniteSets, TLC

\* ---------------------------------------------------------------- bounds
MaxSessions == 2
MaxStopTasks == 2
MaxCleanupTasks == 2
MaxPendingToggles == 1

Sessions == 1..MaxSessions
StopTasks == 1..MaxStopTasks
CleanupTasks == 1..MaxCleanupTasks

\* The size of a header-only WAV file (stop() keeps a file only above it).
WavHeaderSize == 44

\* Texts the remote endpoints may return.
TranscribeTexts == {"", "hello world"}
CleanupTexts == {"", "I think we should go."}

VARIABLES
  \* AudioRecorder
  recording, process, output_file,
  \* operating system, by session: each parecord child ("none": not started
  \* or exited, "running", "signalled": SIGINT sent, not yet exited) and the
  \* size of each temporary file (NoFile: not created or unlinked)
  pstate, fsize, nextSession,
  \* event-loop thread: its position inside start_recording()
  gui_pc,
  \* stop_recording() worker threads
  spc, spath, stext, nextStop,
  \* cleanup_text() worker threads
  cpc, ctext, nextCleanup,
  \* events queued on the event loop
  queue,
  \* widgets
  status_label, record_btn, text_edit, copy_btn, cleanup_btn,
  \* GlobalHotkeyListener
  current_keys, hotkey_fired,
  \* observers (not program state): the keys physically held, the thread
  \* that last wrote a widget, how far each stop task's events have been
  \* applied and whether in order, failures raised minus error events
  \* published
  held, uiWriter, stage, inOrder, errDebt,
  \* observers of a stop() call in progress, by do_stop thread: the child
  \* process the recorder held when stop() was invoked, and whether no other
  \* stop() or start() has run since
  sproc, salone,
  \* one call of a GroqAPI method taken alone: which method, whether the
  \* audio file can be opened, the HTTP exchange's outcome, the requests
  \* sent, the call's result
  api_pc, api_call, api_exists, api_status, api_body, api_requests, api_result

recorderVars == <<recording, process, output_file>>
osVars == <<pstate, fsize, nextSession>>
stopVars == <<spc, spath, stext, nextStop>>
cleanupVars == <<cpc, ctext, nextCleanup>>
uiVars == <<status_label, record_btn, text_edit, copy_btn, cleanup_btn>>
hotkeyVars == <<current_keys, hotkey_fired, held>>
obsVars == <<uiWriter, stage, inOrder, errDebt>>
histVars == <<sproc, salone>>
apiVars == <<api_pc, api_call, api_exists, api_status, api_body, api_requests,
             api_result>>

vars == <<recording, process, output_file, pstate, fsize, nextSession, gui_pc,
          spc, spath, stext, nextStop, cpc, ctext, nextCleanup, queue,
          status_label, record_btn, text_edit, copy_btn, cleanup_btn,
          current_keys, hotkey_fired, held,
          uiWriter, stage, inOrder, errDebt, sproc, salone,
          api_pc, api_call, api_exists, api_status, api_body, api_requests,
          api_result>>

\* ------------------------------------------------------- initial state
\* AudioRecorder.__init__, TranscriberWindow.__init__/setup_ui,
\* GlobalHotkeyListener.__init__.  0 stands for None, -1 for "no such file".
NoFile == 0 - 1

InitWindow ==
  /\ recording = FALSE
  /\ process = 0
  /\ output_file = 0
  /\ pstate = [p \in Sessions |-> "none"]
  /\ fsize = [f \in Sessions |-> NoFile]
  /\ nextSession = 1
  /\ gui_pc = "idle"
  /\ spc = [t \in StopTasks |-> "unborn"]
  /\ spath = [t \in StopTasks |-> 0]
  /\ stext = [t \in StopTasks |-> ""]
  /\ nextStop = 1
  /\ cpc = [c \in CleanupTasks |-> "unborn"]
  /\ ctext = [c \in CleanupTasks |-> ""]
  /\ nextCleanup = 1
  /\ queue = <<>>
  /\ status_label = "Ready - Press Win+H to record"
  /\ record_btn = "Start Recording"
  /\ text_edit = ""
  /\ copy_btn = FALSE
  /\ cleanup_btn = FALSE
  /\ current_keys = {}
  /\ hotkey_fired = FALSE
  /\ held = {}
  /\ uiWriter = "gui"
  /\ stage = [t \in StopTasks |-> 0]
  /\ inOrder = TRUE
  /\ errDebt = 0
  /\ sproc = [t \in StopTasks |-> 0]
  /\ salone = [t \in StopTasks |-> FALSE]

\* The running program: no GroqAPI call is being looked at alone.
Init ==
  /\ InitWindow
  /\ api_pc = "idle"
  /\ api_call = "none"
  /\ api_exists = FALSE
  /\ api_status = 0
  /\ api_body = [json |-> FALSE, has_field |-> FALSE, text |-> ""]
  /\ api_requests = 0
  /\ api_result = [raised |-> FALSE, text |-> ""]

\* ------------------------------------------------------ signal delivery
\* An event queued on the event loop by a signal emitted off that thread.
Event(kind, task, path, text) ==
  [kind |-> kind, task |-> task, path |-> path, text |-> text]

\* Mutant of Publish: the call is posted at the front of the queue.
PublishAtFront(q, e) == <<e>> \o q

\* pyqtSignal.emit() from a worker or listener thread: the call is posted
\* at the back of the receiver's event queue.
Publish(q, e) == Append(q, e)

\* --------------------------------------------------------------- slots
\* Each slot is the widget update it performs (event-loop thread).
on_recording_started ==
  /\ record_btn' = "Stop Recording"
  /\ status_label' = "Recording..."
  /\ UNCHANGED <<text_edit, copy_btn, cleanup_btn>>

on_recording_stopped(audio_path) ==
  /\ record_btn' = "Start Recording"
  /\ UNCHANGED <<status_label, text_edit, copy_btn, cleanup_btn>>

\* Mutant of on_transcription_done: the buttons are enabled whatever the
\* text.
on_transcription_done_enabling(text) ==
  /\ text_edit' = text
  /\ copy_btn' = TRUE
  /\ cleanup_btn' = TRUE
  /\ status_label' = "Transcription complete"
  /\ UNCHANGED record_btn

on_transcription_done(text) ==
  /\ text_edit' = text
  /\ copy_btn' = (text # "")
  /\ cleanup_btn' = (text # "")
  /\ status_label' = "Transcription complete"
  /\ UNCHANGED record_btn

on_cleanup_done(text) ==
  /\ text_edit' = text
  /\ status_label' = "Text cleaned up"
  /\ UNCHANGED <<record_btn, copy_btn, cleanup_btn>>

ErrorStatus(message) == "Error: " \o message

on_error(message) ==
  /\ status_label' = ErrorStatus(message)
  /\ record_btn' = "Start Recording"
  /\ UNCHANGED <<text_edit, copy_btn, cleanup_btn>>

update_status(message) ==
  /\ status_label' = message
  /\ UNCHANGED <<record_btn, text_edit, copy_btn, cleanup_btn>>

\* ------------------------------------------------------- AudioRecorder
Exists(f) == f # 0 /\ fsize[f] # NoFile

\* Observer: do_stop thread t is inside recorder.stop(), past its first
\* statement and before its return.
StopLabels == {"s_ifproc", "s_signal", "s_wait", "s_kill", "s_kwait",
               "s_clear", "s_file", "s_size", "s_ret", "s_unlink"}
InStop(t) == spc[t] \in StopLabels

\* AudioRecorder.start(), first statement, entered from start_recording():
\* the flag is set before anything that can fail.
start_begin ==
  /\ nextSession <= MaxSessions
  /\ recording' = TRUE
  /\ gui_pc' = "start_file"
  /\ salone' = [t \in StopTasks |-> salone[t] /\ ~InStop(t)]
  /\ UNCHANGED <<process, output_file, osVars, stopVars, cleanupVars,
                 uiVars, hotkeyVars, sproc, apiVars, obsVars>>

\* TranscriberWindow.stop_recording(): stops the timer and starts a worker
\* thread running do_stop; nothing of the recorder changes on this thread.
stop_recording ==
  /\ nextStop <= MaxStopTasks
  /\ spc' = [spc EXCEPT ![nextStop] = "s_flag"]
  /\ nextStop' = nextStop + 1
  /\ UNCHANGED <<recorderVars, osVars, gui_pc, spath, stext, cleanupVars,
                 uiVars, hotkeyVars, histVars, apiVars, obsVars>>

\* TranscriberWindow.toggle_recording()
toggle_recording ==
  IF recording THEN stop_recording ELSE start_begin

\* The record button's clicked signal.
ClickRecord == gui_pc = "idle" /\ toggle_recording /\ UNCHANGED queue

\* The tray menu's "Start Recording" action: start_recording() itself,
\* whatever the recorder's flag.
TrayStart == gui_pc = "idle" /\ start_begin /\ UNCHANGED queue

\* start(): tempfile.NamedTemporaryFile(delete=False) then close().  The
\* failure branch is start_recording()'s except clause: error_occurred is
\* emitted on the event-loop thread, so on_error runs at once.
StartFile ==
  /\ gui_pc = "start_file"
  /\ \/ /\ output_file' = nextSession
        /\ fsize' = [fsize EXCEPT ![nextSession] = 0]
        /\ nextSession' = nextSession + 1
        /\ gui_pc' = "start_popen"
        /\ UNCHANGED <<uiVars, uiWriter>>
     \/ /\ on_error("Failed to start recording")
        /\ uiWriter' = "gui"
        /\ gui_pc' = "idle"
        /\ UNCHANGED <<output_file, fsize, nextSession>>
  /\ UNCHANGED <<recording, process, pstate, stopVars, cleanupVars, queue,
                 hotkeyVars, histVars, apiVars, stage, inOrder, errDebt>>

\* start(): subprocess.Popen(["parecord", ...]); then the rest of
\* start_recording(): recording_started is emitted on the event-loop thread,
\* so on_recording_started runs at once.  Popen raising leaves the flag and
\* the file as they are.
StartPopen ==
  /\ gui_pc = "start_popen"
  /\ gui_pc' = "idle"
  /\ uiWriter' = "gui"
  /\ \/ /\ process' = output_file
        /\ pstate' = [pstate EXCEPT ![output_file] = "running"]
        /\ on_recording_started
     \/ /\ on_error("Failed to start recording")
        /\ UNCHANGED <<process, pstate>>
  /\ UNCHANGED <<recording, output_file, fsize, nextSession, stopVars,
                 cleanupVars, queue, hotkeyVars, histVars, apiVars, stage, inOrder, errDebt>>

\* parecord writing: the WAV header first, then audio.
Capture(p) ==
  /\ pstate[p] \in {"running", "signalled"}
  /\ fsize[p] \in {0, WavHeaderSize}
  /\ fsize' = [fsize EXCEPT ![p] = IF @ = 0 THEN WavHeaderSize
                                           ELSE WavHeaderSize + 1]
  /\ UNCHANGED <<recorderVars, pstate, nextSession, gui_pc, stopVars,
                 cleanupVars, queue, uiVars, hotkeyVars, histVars, apiVars, obsVars>>

\* ----------------------------------------------- do_stop worker thread
\* Each step below is one access to state shared with other threads, at the
\* granularity the interpreter can switch threads.
Goto(t, label) == spc' = [spc EXCEPT ![t] = label]

\* Mutant of Raise: the except clause swallows the exception.
RaiseSwallowed(t) == Goto(t, "done") /\ errDebt' = errDebt + 1

\* An exception raised inside do_stop's try block: control passes to the
\* except clause, which publishes error_occurred.
Raise(t) == Goto(t, "emit_error") /\ errDebt' = errDebt + 1

\* Observer: the stop() call of thread t is over (returned or raised).
StopOver(t) ==
  /\ sproc' = [sproc EXCEPT ![t] = 0]
  /\ salone' = [salone EXCEPT ![t] = FALSE]

\* stop(): self.recording = False
s_flag(t) ==
  /\ spc[t] = "s_flag"
  /\ recording' = FALSE
  /\ Goto(t, "s_ifproc")
  /\ sproc' = [sproc EXCEPT ![t] = process]
  /\ salone' = [u \in StopTasks |->
                  IF u = t
                    THEN gui_pc = "idle" /\ \A v \in StopTasks : ~InStop(v)
                    ELSE salone[u] /\ ~InStop(u)]
  /\ UNCHANGED <<process, output_file, osVars, gui_pc, spath, stext, nextStop,
                 cleanupVars, queue, uiVars, hotkeyVars, apiVars, obsVars>>

\* stop(): if self.process:
s_ifproc(t) ==
  /\ spc[t] = "s_ifproc"
  /\ Goto(t, IF process # 0 THEN "s_signal" ELSE "s_file")
  /\ UNCHANGED <<recorderVars, osVars, gui_pc, spath, stext, nextStop,
                 cleanupVars, queue, uiVars, hotkeyVars, histVars, apiVars, obsVars>>

\* stop(): self.process.send_signal(signal.SIGINT).  self.process is read
\* again: None by now raises AttributeError.  A process that has exited is
\* not signalled.
s_signal(t) ==
  /\ spc[t] = "s_signal"
  /\ IF process = 0
       THEN Raise(t) /\ UNCHANGED pstate
       ELSE /\ pstate' = [pstate EXCEPT ![process] =
                            IF @ = "running" THEN "signalled" ELSE @]
            /\ Goto(t, "s_wait")
            /\ UNCHANGED errDebt
  /\ UNCHANGED <<recorderVars, fsize, nextSession, gui_pc, spath, stext,
                 nextStop, cleanupVars, queue, uiVars, hotkeyVars, histVars, apiVars, uiWriter,
                 stage, inOrder>>

\* stop(): self.process.wait(timeout=2).  A signalled process may exit
\* within the grace period or not; one that was never signalled does not.
s_wait(t) ==
  /\ spc[t] = "s_wait"
  /\ IF process = 0
       THEN Raise(t) /\ UNCHANGED pstate
       ELSE /\ \/ /\ pstate[process] # "running"
                  /\ pstate' = [pstate EXCEPT ![process] = "none"]
                  /\ Goto(t, "s_clear")
               \/ /\ pstate[process] # "none"
                  /\ Goto(t, "s_kill")
                  /\ UNCHANGED pstate
            /\ UNCHANGED errDebt
  /\ UNCHANGED <<recorderVars, fsize, nextSession, gui_pc, spath, stext,
                 nextStop, cleanupVars, queue, uiVars, hotkeyVars, histVars, apiVars, uiWriter,
                 stage, inOrder>>

\* stop(), except subprocess.TimeoutExpired: self.process.kill()
s_kill(t) ==
  /\ spc[t] = "s_kill"
  /\ IF process = 0
       THEN Raise(t) /\ UNCHANGED pstate
       ELSE /\ pstate' = [pstate EXCEPT ![process] = "none"]
            /\ Goto(t, "s_kwait")
            /\ UNCHANGED errDebt
  /\ UNCHANGED <<recorderVars, fsize, nextSession, gui_pc, spath, stext,
                 nextStop, cleanupVars, queue, uiVars, hotkeyVars, histVars, apiVars, uiWriter,
                 stage, inOrder>>

\* stop(), except subprocess.TimeoutExpired: self.process.wait(), which
\* returns once the process it is called on has exited.
s_kwait(t) ==
  /\ spc[t] = "s_kwait"
  /\ IF process = 0
       THEN Raise(t)
       ELSE /\ pstate[process] = "none"
            /\ Goto(t, "s_clear")
            /\ UNCHANGED errDebt
  /\ UNCHANGED <<recorderVars, osVars, gui_pc, spath, stext, nextStop,
                 cleanupVars, queue, uiVars, hotkeyVars, histVars, apiVars, uiWriter, stage,
                 inOrder>>

\* stop(): self.process = None
s_clear(t) ==
  /\ spc[t] = "s_clear"
  /\ process' = 0
  /\ Goto(t, "s_file")
  /\ UNCHANGED <<recording, output_file, osVars, gui_pc, spath, stext,
                 nextStop, cleanupVars, queue, uiVars, hotkeyVars, histVars, apiVars, obsVars>>

\* stop(): if self.output_file and os.path.exists(self.output_file.name);
\* otherwise return "".
s_file(t) ==
  /\ spc[t] = "s_file"
  /\ IF Exists(output_file)
       THEN Goto(t, "s_size") /\ UNCHANGED spath
       ELSE Goto(t, "emit_stopped") /\ spath' = [spath EXCEPT ![t] = 0]
  /\ UNCHANGED <<recorderVars, osVars, gui_pc, stext, nextStop, cleanupVars,
                 queue, uiVars, hotkeyVars, histVars, apiVars, obsVars>>

\* Mutant of HasAudio: a header-only file counts as audio.
HasAudioFromHeader(size) == size >= WavHeaderSize

\* stop(): os.path.getsize(self.output_file.name) > 44
HasAudio(size) == size > WavHeaderSize

\* stop(): if os.path.getsize(self.output_file.name) > 44: getsize raises
\* for a file that is gone by now.
s_size(t) ==
  /\ spc[t] = "s_size"
  /\ IF ~Exists(output_file)
       THEN Raise(t)
       ELSE /\ Goto(t, IF HasAudio(fsize[output_file])
                         THEN "s_ret" ELSE "s_unlink")
            /\ UNCHANGED errDebt
  /\ UNCHANGED <<recorderVars, osVars, gui_pc, spath, stext, nextStop,
                 cleanupVars, queue, uiVars, hotkeyVars, histVars, apiVars, uiWriter, stage,
                 inOrder>>

\* stop(): return self.output_file.name
s_ret(t) ==
  /\ spc[t] = "s_ret"
  /\ spath' = [spath EXCEPT ![t] = output_file]
  /\ Goto(t, "emit_stopped")
  /\ UNCHANGED <<recorderVars, osVars, gui_pc, stext, nextStop, cleanupVars,
                 queue, uiVars, hotkeyVars, histVars, apiVars, obsVars>>

\* stop(): os.unlink(self.output_file.name); return "".  unlink raises for
\* a file that is gone by now.
s_unlink(t) ==
  /\ spc[t] = "s_unlink"
  /\ IF ~Exists(output_file)
       THEN Raise(t) /\ UNCHANGED <<fsize, spath>>
       ELSE /\ fsize' = [fsize EXCEPT ![output_file] = NoFile]
            /\ spath' = [spath EXCEPT ![t] = 0]
            /\ Goto(t, "emit_stopped")
            /\ UNCHANGED errDebt
  /\ UNCHANGED <<recorderVars, pstate, nextSession, gui_pc, stext, nextStop,
                 cleanupVars, queue, uiVars, hotkeyVars, histVars, apiVars, uiWriter, stage,
                 inOrder>>

\* ------------------------------------------------------------- GroqAPI
\* What one HTTP exchange can come to: no response within the client's
\* timeout (status 0), or a status and a body.
HttpStatuses == {0, 200, 401, 500}

TranscribeBodies ==
  {[json |-> FALSE, has_field |-> FALSE, text |-> ""],
   [json |-> TRUE, has_field |-> FALSE, text |-> ""]}
  \cup {[json |-> TRUE, has_field |-> TRUE, text |-> x] : x \in TranscribeTexts}

CleanupBodies ==
  {[json |-> FALSE, has_field |-> FALSE, text |-> ""],
   [json |-> TRUE, has_field |-> FALSE, text |-> ""]}
  \cup {[json |-> TRUE, has_field |-> TRUE, text |-> x] : x \in CleanupTexts}

Returned(text) == [raised |-> FALSE, text |-> text]
Raised == [raised |-> TRUE, text |-> ""]

\* httpx: client.post raises on timeout; raise_for_status raises unless 2xx.
IsSuccess(status) == status >= 200 /\ status <= 299

\* Mutant of transcribe: the field is indexed, as cleanup indexes its own.
transcribeIndexed(status, body) ==
  IF status = 0 THEN Raised
  ELSE IF ~IsSuccess(status) THEN Raised
  ELSE IF ~body.json THEN Raised
  ELSE IF body.has_field THEN Returned(body.text)
  ELSE Raised

\* GroqAPI.transcribe, after the file has been opened:
\* post; raise_for_status(); response.json(); result.get("text", "")
transcribe(status, body) ==
  IF status = 0 THEN Raised
  ELSE IF ~IsSuccess(status) THEN Raised
  ELSE IF ~body.json THEN Raised
  ELSE IF body.has_field THEN Returned(body.text)
  ELSE Returned("")

\* GroqAPI.cleanup:
\* post; raise_for_status(); response.json();
\* result["choices"][0]["message"]["content"]
cleanup(status, body) ==
  IF status = 0 THEN Raised
  ELSE IF ~IsSuccess(status) THEN Raised
  ELSE IF ~body.json THEN Raised
  ELSE IF body.has_field THEN Returned(body.text)
  ELSE Raised

\* ------------------------------------- do_stop, after recorder.stop()
\* self.signals.recording_stopped.emit(audio_path); if audio_path: ...
emit_stopped(t) ==
  /\ spc[t] = "emit_stopped"
  /\ queue' = Publish(queue, Event("recording_stopped", t, spath[t], ""))
  /\ Goto(t, IF spath[t] # 0 THEN "emit_status" ELSE "done")
  /\ StopOver(t)
  /\ UNCHANGED <<recorderVars, osVars, gui_pc, spath, stext, nextStop,
                 cleanupVars, uiVars, hotkeyVars, apiVars, obsVars>>

\* self.signals.status_update.emit("Transcribing...")
emit_status(t) ==
  /\ spc[t] = "emit_status"
  /\ queue' = Publish(queue, Event("status_update", t, 0, "Transcribing..."))
  /\ Goto(t, "transcribe")
  /\ UNCHANGED <<recorderVars, osVars, gui_pc, spath, stext, nextStop,
                 cleanupVars, uiVars, hotkeyVars, histVars, apiVars, obsVars>>

\* text = self.api.transcribe(audio_path): open() raises for a file that is
\* gone; otherwise one HTTP exchange decides.
do_transcribe(t) ==
  /\ spc[t] = "transcribe"
  /\ \E status \in HttpStatuses, body \in TranscribeBodies :
       LET r == transcribe(status, body) IN
       IF ~Exists(spath[t]) \/ r.raised
         THEN Raise(t) /\ UNCHANGED stext
         ELSE /\ stext' = [stext EXCEPT ![t] = r.text]
              /\ Goto(t, "emit_done")
              /\ UNCHANGED errDebt
  /\ UNCHANGED <<recorderVars, osVars, gui_pc, spath, nextStop, cleanupVars,
                 queue, uiVars, hotkeyVars, histVars, apiVars, uiWriter, stage, inOrder>>

\* self.signals.transcription_done.emit(text)
emit_done(t) ==
  /\ spc[t] = "emit_done"
  /\ queue' = Publish(queue, Event("transcription_done", t, 0, stext[t]))
  /\ stext' = [stext EXCEPT ![t] = ""]
  /\ Goto(t, "unlink")
  /\ UNCHANGED <<recorderVars, osVars, gui_pc, spath, nextStop, cleanupVars,
                 uiVars, hotkeyVars, histVars, apiVars, obsVars>>

\* try: os.unlink(audio_path) except: pass
unlink_audio(t) ==
  /\ spc[t] = "unlink"
  /\ fsize' = [fsize EXCEPT ![spath[t]] = NoFile]
  /\ Goto(t, "done")
  /\ UNCHANGED <<recorderVars, pstate, nextSession, gui_pc, spath, stext,
                 nextStop, cleanupVars, queue, uiVars, hotkeyVars, histVars, apiVars, obsVars>>

\* except Exception as e: self.signals.error_occurred.emit(f"Error: {e}")
emit_error(t) ==
  /\ spc[t] = "emit_error"
  /\ queue' = Publish(queue, Event("error_occurred", t, 0, "Error"))
  /\ errDebt' = errDebt - 1
  /\ Goto(t, "done")
  /\ StopOver(t)
  /\ UNCHANGED <<recorderVars, osVars, gui_pc, spath, stext, nextStop,
                 cleanupVars, uiVars, hotkeyVars, apiVars, uiWriter, stage,
                 inOrder>>

DoStop(t) ==
  \/ s_flag(t) \/ s_ifproc(t) \/ s_signal(t) \/ s_wait(t) \/ s_kill(t)
  \/ s_kwait(t) \/ s_clear(t) \/ s_file(t) \/ s_size(t) \/ s_ret(t)
  \/ s_unlink(t) \/ emit_stopped(t) \/ emit_status(t) \/ do_transcribe(t)
  \/ emit_done(t) \/ unlink_audio(t) \/ emit_error(t)

\* ------------------------------------------------ cleanup_text worker
\* TranscriberWindow.cleanup_text(), the Clean Up button's slot (a disabled
\* button emits no click): returns at once on empty text, else disables the
\* button and starts a worker thread running do_cleanup.
ClickCleanup ==
  /\ gui_pc = "idle"
  /\ cleanup_btn
  /\ nextCleanup <= MaxCleanupTasks
  /\ IF text_edit = ""
       THEN UNCHANGED <<cleanupVars, uiVars, uiWriter>>
       ELSE /\ cleanup_btn' = FALSE
            /\ status_label' = "Cleaning up..."
            /\ uiWriter' = "gui"
            /\ cpc' = [cpc EXCEPT ![nextCleanup] = "call"]
            /\ nextCleanup' = nextCleanup + 1
            /\ UNCHANGED <<ctext, record_btn, text_edit, copy_btn>>
  /\ UNCHANGED <<recorderVars, osVars, gui_pc, stopVars, queue, hotkeyVars, histVars, apiVars,
                 stage, inOrder, errDebt>>

\* do_cleanup: cleaned = self.api.cleanup(text)
c_call(c) ==
  /\ cpc[c] = "call"
  /\ \E status \in HttpStatuses, body \in CleanupBodies :
       LET r == cleanup(status, body) IN
       IF r.raised
         THEN /\ cpc' = [cpc EXCEPT ![c] = "emit_error"]
              /\ errDebt' = errDebt + 1
              /\ UNCHANGED ctext
         ELSE /\ cpc' = [cpc EXCEPT ![c] = "emit_done"]
              /\ ctext' = [ctext EXCEPT ![c] = r.text]
              /\ UNCHANGED errDebt
  /\ UNCHANGED <<recorderVars, osVars, gui_pc, stopVars, nextCleanup, queue,
                 uiVars, hotkeyVars, histVars, apiVars, uiWriter, stage, inOrder>>

\* do_cleanup: self.signals.cleanup_done.emit(cleaned)
c_emit_done(c) ==
  /\ cpc[c] = "emit_done"
  /\ queue' = Publish(queue, Event("cleanup_done", 0, 0, ctext[c]))
  /\ ctext' = [ctext EXCEPT ![c] = ""]
  /\ cpc' = [cpc EXCEPT ![c] = "finally"]
  /\ UNCHANGED <<recorderVars, osVars, gui_pc, stopVars, nextCleanup, uiVars,
                 hotkeyVars, histVars, apiVars, obsVars>>

\* do_cleanup: except Exception as e:
\*   self.signals.error_occurred.emit(f"Cleanup failed: {e}")
c_emit_error(c) ==
  /\ cpc[c] = "emit_error"
  /\ queue' = Publish(queue, Event("error_occurred", 0, 0, "Cleanup failed"))
  /\ errDebt' = errDebt - 1
  /\ cpc' = [cpc EXCEPT ![c] = "finally"]
  /\ UNCHANGED <<recorderVars, osVars, gui_pc, stopVars, ctext, nextCleanup,
                 uiVars, hotkeyVars, histVars, apiVars, uiWriter, stage, inOrder>>

\* do_cleanup: finally: self.cleanup_btn.setEnabled(True), on the worker
\* thread itself.
c_finally(c) ==
  /\ cpc[c] = "finally"
  /\ cleanup_btn' = TRUE
  /\ uiWriter' = "worker"
  /\ cpc' = [cpc EXCEPT ![c] = "done"]
  /\ UNCHANGED <<recorderVars, osVars, gui_pc, stopVars, ctext, nextCleanup,
                 queue, status_label, record_btn, text_edit, copy_btn,
                 hotkeyVars, histVars, apiVars, stage, inOrder, errDebt>>

DoCleanup(c) ==
  c_call(c) \/ c_emit_done(c) \/ c_emit_error(c) \/ c_finally(c)

\* TranscriberWindow.clear_text(), the Clear button's slot.
ClickClear ==
  /\ gui_pc = "idle"
  /\ text_edit' = ""
  /\ copy_btn' = FALSE
  /\ cleanup_btn' = FALSE
  /\ status_label' = "Ready - Press Win+H to record"
  /\ uiWriter' = "gui"
  /\ UNCHANGED <<recorderVars, osVars, gui_pc, stopVars, cleanupVars, queue,
                 record_btn, hotkeyVars, histVars, apiVars, stage, inOrder, errDebt>>

\* ------------------------------------------------------- event loop
\* The event loop takes the oldest queued event and runs its slot
\* (setup_signals); it takes none while a handler is still running.
Dispatchable(kind) ==
  gui_pc = "idle" /\ queue # <<>> /\ Head(queue).kind = kind

\* Observer of the order in which one do_stop thread's events are applied:
\* recording_stopped first, status_update second, then transcription_done
\* or error_occurred; an error raised inside stop() comes alone.
Applied(t, from, to) ==
  /\ stage' = [stage EXCEPT ![t] = to]
  /\ inOrder' = (inOrder /\ stage[t] \in from)

DispatchStopped ==
  /\ Dispatchable("recording_stopped")
  /\ queue' = Tail(queue)
  /\ on_recording_stopped(Head(queue).path)
  /\ uiWriter' = "gui"
  /\ Applied(Head(queue).task, {0}, 1)
  /\ UNCHANGED <<recorderVars, osVars, gui_pc, stopVars, cleanupVars,
                 hotkeyVars, histVars, apiVars, errDebt>>

DispatchStatus ==
  /\ Dispatchable("status_update")
  /\ queue' = Tail(queue)
  /\ update_status(Head(queue).text)
  /\ uiWriter' = "gui"
  /\ Applied(Head(queue).task, {1}, 2)
  /\ UNCHANGED <<recorderVars, osVars, gui_pc, stopVars, cleanupVars,
                 hotkeyVars, histVars, apiVars, errDebt>>

DispatchTranscribed ==
  /\ Dispatchable("transcription_done")
  /\ queue' = Tail(queue)
  /\ on_transcription_done(Head(queue).text)
  /\ uiWriter' = "gui"
  /\ Applied(Head(queue).task, {2}, 3)
  /\ UNCHANGED <<recorderVars, osVars, gui_pc, stopVars, cleanupVars,
                 hotkeyVars, histVars, apiVars, errDebt>>

DispatchCleaned ==
  /\ Dispatchable("cleanup_done")
  /\ queue' = Tail(queue)
  /\ on_cleanup_done(Head(queue).text)
  /\ uiWriter' = "gui"
  /\ UNCHANGED <<recorderVars, osVars, gui_pc, stopVars, cleanupVars,
                 hotkeyVars, histVars, apiVars, stage, inOrder, errDebt>>

DispatchError ==
  /\ Dispatchable("error_occurred")
  /\ queue' = Tail(queue)
  /\ on_error(Head(queue).text)
  /\ uiWriter' = "gui"
  /\ IF Head(queue).task # 0
       THEN Applied(Head(queue).task, {0, 2}, 3)
       ELSE UNCHANGED <<stage, inOrder>>
  /\ UNCHANGED <<recorderVars, osVars, gui_pc, stopVars, cleanupVars,
                 hotkeyVars, histVars, apiVars, errDebt>>

DispatchToggle ==
  /\ Dispatchable("hotkey_toggle")
  /\ queue' = Tail(queue)
  /\ toggle_recording

\* ------------------------------------------------ GlobalHotkeyListener
\* Keys as the listener delivers them: the two super keys (Key.cmd is the
\* left one), the letter h with either case of its character, one other
\* letter.
Keys == {"cmd", "cmd_r", "h", "H", "x"}

\* TOGGLE_HOTKEY = {keyboard.Key.cmd, keyboard.KeyCode.from_char('h')}
TOGGLE_HOTKEY == {"cmd", "h"}

\* str.lower() on a key's character
Lower(char) == IF char = "H" THEN "h" ELSE char

HasChar(key) == key \in {"h", "H", "x"}

\* Mutant of Stored: the character is stored in the case it came in.
StoredAsDelivered(key) == key

\* on_press/on_release: the member of current_keys a key is stored as:
\* KeyCode.from_char(key.char.lower()) for a character key, else the key.
Stored(key) == IF HasChar(key) THEN Lower(key) ELSE key

\* _check_hotkey: left/right variants of a modifier count as one key.
Normalize(k) ==
  IF k \in {"ctrl_l", "ctrl_r", "ctrl"} THEN "ctrl_l"
  ELSE IF k \in {"shift_l", "shift_r", "shift"} THEN "shift"
  ELSE IF k \in {"cmd_l", "cmd_r", "cmd"} THEN "cmd"
  ELSE k

\* GlobalHotkeyListener._check_hotkey
check_hotkey(keys, target_keys) ==
  {Normalize(k) : k \in target_keys} \subseteq {Normalize(k) : k \in keys}

\* Observer: the physical key behind a notification, and whether the chord
\* (either super key together with h) is physically held.
Phys(key) == IF key = "H" THEN "h" ELSE key
ChordHeld(h) == "h" \in h /\ h \cap {"cmd", "cmd_r"} # {}

\* hotkey_toggle events the event loop has not dispatched yet
PendingToggles ==
  Cardinality({i \in 1..Len(queue) : queue[i].kind = "hotkey_toggle"})

\* GlobalHotkeyListener.on_press (listener thread); a key that is already
\* held repeats.  (The chord is not completed while MaxPendingToggles earlier
\* toggles still wait in the queue.)
on_press(key) ==
  /\ current_keys' = current_keys \cup {Stored(key)}
  /\ held' = held \cup {Phys(key)}
  /\ IF check_hotkey(current_keys', TOGGLE_HOTKEY) /\ ~hotkey_fired
       THEN /\ PendingToggles < MaxPendingToggles
            /\ hotkey_fired' = TRUE
            /\ queue' = Publish(queue, Event("hotkey_toggle", 0, 0, ""))
       ELSE UNCHANGED <<hotkey_fired, queue>>
  /\ UNCHANGED <<recorderVars, osVars, gui_pc, stopVars, cleanupVars, uiVars,
                 obsVars, histVars, apiVars>>

\* GlobalHotkeyListener.on_release (listener thread), for a key that is held
on_release(key) ==
  /\ Phys(key) \in held
  /\ current_keys' = current_keys \ {Stored(key)}
  /\ held' = held \ {Phys(key)}
  /\ hotkey_fired' = IF ~check_hotkey(current_keys', TOGGLE_HOTKEY)
                       THEN FALSE ELSE hotkey_fired
  /\ UNCHANGED <<recorderVars, osVars, gui_pc, stopVars, cleanupVars, queue,
                 uiVars, obsVars, histVars, apiVars>>

\* One whole cycle of the chord on the listener thread, from no key held:
\* on_press(cmd), on_press(h), on_release(h), on_release(cmd).  The four
\* handlers touch only the listener's own fields and publish one event, so
\* no other thread can tell the cycle from its four steps.  (The chord is
\* pressed while no event waits in the queue; events published after it
\* queue up behind the toggle.)
hotkey_chord ==
  /\ current_keys = {}
  /\ ~hotkey_fired
  /\ check_hotkey({Stored(k) : k \in TOGGLE_HOTKEY}, TOGGLE_HOTKEY)
  /\ queue = <<>>
  /\ queue' = Publish(queue, Event("hotkey_toggle", 0, 0, ""))
  /\ UNCHANGED <<recorderVars, osVars, gui_pc, stopVars, cleanupVars, uiVars,
                 hotkeyVars, histVars, apiVars, obsVars>>

\* ------------------------------------------- one GroqAPI call, alone
\* Statuses an HTTP exchange can come to, the edges of the 2xx range
\* included; 0 stands for no response within the client's timeout.
ApiStatuses == HttpStatuses \cup {199, 201, 204, 299, 300, 404, 429, 503}

ApiCall(method, exists, status, body) ==
  /\ api_pc = "ready"
  /\ api_call = method
  /\ api_exists = exists
  /\ api_status = status
  /\ api_body = body
  /\ api_requests = 0
  /\ api_result = Returned("")

\* A call about to be made: transcribe(audio_path) on a file that can or
\* cannot be opened, or cleanup(text), with the exchange it will meet.
InitApi ==
  /\ InitWindow
  /\ \/ \E exists \in BOOLEAN, status \in ApiStatuses,
            body \in TranscribeBodies :
            ApiCall("transcribe", exists, status, body)
     \/ \E status \in ApiStatuses, body \in CleanupBodies :
            ApiCall("cleanup", TRUE, status, body)

\* GroqAPI.transcribe(audio_path): open() raises before anything is sent;
\* otherwise one client.post and the result the response decides.
api_transcribe ==
  /\ api_pc = "ready"
  /\ api_call = "transcribe"
  /\ api_pc' = "returned"
  /\ IF ~api_exists
       THEN api_result' = Raised /\ UNCHANGED api_requests
       ELSE /\ api_requests' = api_requests + 1
            /\ api_result' = transcribe(api_status, api_body)
  /\ UNCHANGED <<recorderVars, osVars, gui_pc, stopVars, cleanupVars, queue,
                 uiVars, hotkeyVars, obsVars, histVars, api_call, api_exists,
                 api_status, api_body>>

\* GroqAPI.cleanup(text): one client.post and the result the response
\* decides.
api_cleanup ==
  /\ api_pc = "ready"
  /\ api_call = "cleanup"
  /\ api_pc' = "returned"
  /\ api_requests' = api_requests + 1
  /\ api_result' = cleanup(api_status, api_body)
  /\ UNCHANGED <<recorderVars, osVars, gui_pc, stopVars, cleanupVars, queue,
                 uiVars, hotkeyVars, obsVars, histVars, api_call, api_exists,
                 api_status, api_body>>

\* ------------------------------------------------------ specifications
\* Spec: the recording controller under every interleaving of the event
\* loop, the do_stop threads, the capture processes and the hotkey thread
\* (whole chord cycles).
Next ==
  \/ ClickRecord
  \/ TrayStart
  \/ hotkey_chord
  \/ StartFile
  \/ StartPopen
  \/ \E p \in Sessions : Capture(p)
  \/ \E t \in StopTasks : DoStop(t)
  \/ DispatchStopped
  \/ DispatchStatus
  \/ DispatchTranscribed
  \/ DispatchError
  \/ DispatchToggle

Spec == Init /\ [][Next]_vars

\* SpecWindow: the window with its Clean Up and Clear buttons and the
\* do_cleanup threads, around the same controller.  Here the user presses the
\* record button only once the window has caught up with the earlier cycle,
\* or again before the worker thread of the previous press has run.
Settled ==
  /\ queue = <<>>
  /\ \A t \in StopTasks : spc[t] \in {"unborn", "s_flag", "done"}

ClickRecordSettled == Settled /\ ClickRecord

NextWindow ==
  \/ ClickRecordSettled
  \/ StartFile
  \/ StartPopen
  \/ \E p \in Sessions : Capture(p)
  \/ \E t \in StopTasks : DoStop(t)
  \/ ClickCleanup
  \/ \E c \in CleanupTasks : DoCleanup(c)
  \/ ClickClear
  \/ DispatchStopped
  \/ DispatchStatus
  \/ DispatchTranscribed
  \/ DispatchCleaned
  \/ DispatchError

SpecWindow == Init /\ [][NextWindow]_vars

\* SpecHotkey: the listener key by key, with the event loop dispatching the
\* toggles it publishes into start_recording()/stop_recording().
NextHotkey ==
  \/ \E key \in Keys : on_press(key)
  \/ \E key \in Keys : on_release(key)
  \/ DispatchToggle
  \/ StartFile
  \/ StartPopen

SpecHotkey == Init /\ [][NextHotkey]_vars

\* SpecApi: one call of a GroqAPI method for every exchange it can meet.
NextApi ==
  \/ api_transcribe
  \/ api_cleanup

SpecApi == InitApi /\ [][NextApi]_vars

\* ================================================================ claims
InFlight(t) == spc[t] \notin {"unborn", "done"}
CleanupInFlight(c) == cpc[c] \notin {"unborn", "done"}

\* C1: at most one stop+transcribe task is in flight at any time (a toggle
\* while one is running starts neither a recording nor a second task).
C1_AtMostOneStopTask ==
  Cardinality({t \in StopTasks : InFlight(t)}) <= 1

\* C2: at most one capture process is alive, and no process or temporary
\* file that start() created is left with nothing referring to it: a live
\* process is the recorder's, an existing file is the recorder's current
\* output or the file a running task is consuming.
C2_OneSessionNoOrphan ==
  /\ Cardinality({p \in Sessions : pstate[p] # "none"}) <= 1
  /\ \A p \in Sessions : pstate[p] = "running" => process = p
  /\ \A f \in Sessions :
       Exists(f) => \/ output_file = f
                    \/ \E t \in StopTasks : InFlight(t) /\ spath[t] = f

\* C3: when the capture process cannot be spawned, the recorder is not left
\* marked as recording (the controller remains Idle).
C3_SpawnFailureStaysIdle ==
  [][(gui_pc = "start_popen" /\ gui_pc' = "idle" /\ process' = process)
       => ~recording']_vars

\* C4: a task whose stop() returned a path has unlinked that file by the
\* time it finishes, whether the transcription succeeded or failed.
C4_FileUnlinkedWhenTaskEnds ==
  \A t \in StopTasks :
    (spc[t] = "done" /\ spath[t] # 0) => ~Exists(spath[t])

\* C5: the listener publishes a toggle exactly when a key press completes
\* the chord (either super key with h, in either order), none while the
\* chord stays held, and its fired flag is set exactly while the chord is
\* held, so the next toggle needs a release and a new press.
ChordCompleted == ~ChordHeld(held) /\ ChordHeld(held')
TogglePublished == Len(queue') = Len(queue) + 1

C5_OneTogglePerChordCycle ==
  /\ [](hotkey_fired = ChordHeld(held))
  /\ [][TogglePublished <=> ChordCompleted]_vars

\* C5 witness: the chord is held through the right super key with another
\* key down, its toggle still queued, after an earlier cycle's toggle has
\* already started a recording.
C5_Witness ==
  /\ hotkey_fired
  /\ held = {"cmd_r", "h", "x"}
  /\ PendingToggles = 1
  /\ recording /\ process # 0
  /\ gui_pc = "idle"

\* C6: when the event loop applies recording_stopped with no path, the task
\* makes no transcription call, the status becomes a "no audio" notice and
\* the copy and cleanup controls are left as they were.
NoAudioNotice == "No audio captured"

C6_NoAudioNotice ==
  [][(Dispatchable("recording_stopped") /\ Head(queue).path = 0
        /\ queue' = Tail(queue))
       => /\ status_label' = NoAudioNotice
          /\ copy_btn' = copy_btn /\ cleanup_btn' = cleanup_btn
          /\ spc'[Head(queue).task] = "done"]_vars

\* C7: at most one cleanup task is in flight at any time.
C7_AtMostOneCleanup ==
  Cardinality({c \in CleanupTasks : CleanupInFlight(c)}) <= 1

\* C8: no worker thread writes a widget; only the event loop does.
C8_OnlyEventLoopWritesWidgets == uiWriter # "worker"

\* C9: the events of each do_stop thread are applied in the order it
\* published them: recording_stopped, then status_update, then
\* transcription_done or error_occurred.
C9_EventsAppliedInOrder == inOrder

\* C9 witness: a task that captured audio has had all three of its events
\* applied while the other task was running.
C9_Witness ==
  /\ stage[1] = 3 /\ spath[1] # 0
  /\ InFlight(2)
  /\ inOrder

\* C10: every failure is caught where it was raised and published as
\* exactly one error event, after which the failing operation is over: the
\* failures raised in worker threads and not yet published are those of the
\* tasks now in their except clause; a task whose error has been applied
\* has terminated; and a failed start shows its error at once, queues
\* nothing and leaves the event loop free for the next toggle.
StartFailed ==
  gui_pc \in {"start_file", "start_popen"} /\ gui_pc' = "idle"
    /\ process' = process

C10_OneErrorPerFailure ==
  /\ [](errDebt = Cardinality({t \in StopTasks : spc[t] = "emit_error"})
                  + Cardinality({c \in CleanupTasks : cpc[c] = "emit_error"}))
  /\ [](\A t \in StopTasks :
          (stage[t] = 3 /\ spc[t] # "done") => spc[t] = "unlink")
  /\ [][StartFailed =>
          /\ status_label' = ErrorStatus("Failed to start recording")
          /\ queue' = queue]_vars

\* C10 witness: the first cycle's transcription failed (its error has been
\* applied, its file is still there), and a later toggle has started a new
\* recording.
C10_Witness ==
  /\ spc[1] = "done" /\ stage[1] = 3 /\ spath[1] = 1 /\ Exists(1)
  /\ errDebt = 0
  /\ recording /\ process = 2 /\ pstate[2] = "running"

\* A step in which thread t's stop() call returns.
StopReturns(t) == InStop(t) /\ spc'[t] = "emit_stopped"

\* C11: a stop() call that no other stop() or start() has run alongside,
\* and that finds the recorder's file with at most 44 bytes, returns the
\* empty string, and the file is gone when it returns.
C11_ShortFileDiscarded ==
  [][\A t \in StopTasks :
       (StopReturns(t) /\ salone[t] /\ Exists(output_file)
          /\ fsize[output_file] <= 44)
         => (spath'[t] = 0 /\ fsize'[output_file] = NoFile)]_vars

\* C11 witness: the only stop() call so far has returned the empty string
\* and the file its capture process had written is gone.
C11_Witness ==
  /\ spc[1] = "emit_stopped" /\ salone[1] /\ nextStop = 2
  /\ sproc[1] = 1 /\ output_file = 1
  /\ spath[1] = 0 /\ ~Exists(1)

\* C12: a stop() call on a recording whose file has more than 44 bytes
\* returns that file's path, and the file exists when it returns.
C12_LongFileReturned ==
  [][\A t \in StopTasks :
       (StopReturns(t) /\ Exists(sproc[t]) /\ fsize[sproc[t]] > 44)
         => (spath'[t] = sproc[t] /\ fsize'[sproc[t]] # NoFile)]_vars

\* C13: the recorder's output path is set only while the session is in
\* use: recording, being stopped or transcribed by a task, or naming a file
\* that still waits to be consumed.
C13_PathResetAfterUse ==
  output_file # 0 =>
    \/ recording
    \/ \E t \in StopTasks : InFlight(t)
    \/ Exists(output_file)

\* C14: when the event loop applies transcription_done(text), the transcript
\* shown becomes that text and the copy and cleanup buttons are enabled
\* exactly if the text is not empty.
C14_TranscriptApplied ==
  [][(Dispatchable("transcription_done") /\ queue' = Tail(queue))
       => /\ text_edit' = Head(queue).text
          /\ copy_btn' = (Head(queue).text # "")
          /\ cleanup_btn' = (Head(queue).text # "")]_vars

\* C14 witness: a completed cycle has put a non-empty transcript on
\* display with both buttons enabled.
C14_Witness ==
  /\ stage[1] = 3 /\ spc[1] = "done"
  /\ text_edit = "hello world"
  /\ copy_btn /\ cleanup_btn
  /\ status_label = "Transcription complete"

\* C15: a transcribe call sends at most one request, and exactly one once
\* the audio file is open; it raises for every response outside 200..299
\* and returns the empty string for a 2xx response whose JSON body has no
\* text field.
C15_TranscribeResult ==
  (api_pc = "returned" /\ api_call = "transcribe") =>
    /\ api_requests <= 1
    /\ api_exists =>
         /\ api_requests = 1
         /\ api_status \notin 200..299 => api_result.raised
         /\ (api_status \in 200..299 /\ api_body.json
               /\ ~api_body.has_field)
              => (~api_result.raised /\ api_result.text = "")

\* C15 witness: a call answered with status 201 and a JSON body without a
\* text field has returned.
C15_Witness ==
  /\ api_pc = "returned" /\ api_call = "transcribe"
  /\ api_exists /\ api_status = 201
  /\ api_body.json /\ ~api_body.has_field
  /\ api_requests = 1 /\ ~api_result.raised

\* C16: when stop() returns, the child process the recorder held when
\* stop() was invoked has exited and the recorder holds no process, under
\* every interleaving with a later start().
C16_ChildExitedAtReturn ==
  [][\A t \in StopTasks :
       (StopReturns(t) /\ sproc[t] # 0)
         => (pstate'[sproc[t]] = "none" /\ process' = 0)]_vars

\* C17: the event-loop thread never executes a blocking operation (file
\* creation, process spawn): it is never inside recorder.start().
C17_EventLoopNeverBlocks == gui_pc = "idle"

\* C18: with no task running and no event undelivered, the record button
\* reads "Stop Recording" exactly if the recorder's flag is set.
Quiescent ==
  /\ gui_pc = "idle"
  /\ queue = <<>>
  /\ \A t \in StopTasks : ~InFlight(t)
  /\ \A c \in CleanupTasks : ~CleanupInFlight(c)

C18_ButtonMatchesFlag ==
  Quiescent => ((record_btn = "Stop Recording") <=> recording)

\* C19: every step of the program that sets the transcript shown or the
\* copy or cleanup button leaves the buttons enabled only with a non-empty
\* transcript.
C19_ControlsNeedText ==
  [][(text_edit' # text_edit \/ copy_btn' # copy_btn
        \/ cleanup_btn' # cleanup_btn)
       => ((copy_btn' \/ cleanup_btn') => text_edit' # "")]_vars

====
